---- MODULE Spec2Model ----
(***************************************************************************)
(* Model of the clickstream analytics batch (ETL.py) and of the chunked    *)
(* MySQL bulk-loader (csv_to_sql.py).                                      *)
(*                                                                         *)
(* A DataFrame is a record [columns |-> sequence of column names,          *)
(* rows |-> sequence of rows], a row being a record keyed by column name.  *)
(* Timestamps are integers (ticks); a float is an exact fraction           *)
(* [num, den] with den > 0; a missing product (NaN) is NoProduct.          *)
(***************************************************************************)
EXTENDS Integers, Sequences, FiniteSets, TLC

VARIABLES
    data,                \* content of data.csv, as typed rows in file order
    df,                  \* the event table held by the caller
    session_journeys,    \* result of analyze_funnel
    first_page_analysis, \* result of analyze_by_first_page
    product_viewers,     \* result of analyze_product_only_viewers
    user_metrics,        \* per-user metrics table of detect_abnormal_behavior
    abnormal_behavior,   \* result of detect_abnormal_behavior
    files,               \* output files of main: name -> "absent" | "partial" | "complete"
    pc,                  \* position of the analytics program
    steps,               \* history: the steps main has executed, with their outcome
    chunksize,           \* loader: rows per batch
    lpc,                 \* loader: position in import_csv_to_mysql
    connection,          \* loader: "unbound" | "open" | "closed"
    alive,               \* loader: what connection.is_connected() answers
    cursor,              \* loader: "unbound" | "open" | "closed"
    table_created,       \* loader: user_events exists
    committed,           \* loader: rows committed to user_events, in insert order
    pending,             \* loader: rows inserted in the open transaction
    pos,                 \* loader: rows of the file consumed by the chunk reader
    chunk,               \* loader: the batch in hand
    total_records,       \* loader: the counter of line 83
    logged_total,        \* loader: the total logged at line 110 (-1: not logged)
    optimized,           \* loader: OPTIMIZE TABLE has run
    exc,                 \* loader: the exception in flight ("none" when there is none)
    first_exc,           \* history: the first exception raised in the run
    failed_batch,        \* history: index of the batch whose insert failed (0: none)
    trace                \* history: database and reader operations, in order

etl_vars == <<data, df, session_journeys, first_page_analysis, product_viewers,
              user_metrics, abnormal_behavior, files, pc, steps>>

loader_vars == <<chunksize, lpc, connection, alive, cursor, table_created, committed,
                 pending, pos, chunk, total_records, logged_total, optimized, exc,
                 first_exc, failed_batch, trace>>

vars == <<etl_vars, loader_vars>>

-----------------------------------------------------------------------------
(* Bounds of the model *)

MaxMainLen == 2
MaxFunnelLen == 3
MaxViewerLen == 3
MaxRuns == 2
MaxRunLen == 6
MaxSessions == 3
MaxEvents == 12
MaxPageTypes == 2
MaxRows == 4
MaxChunk == 3

(* Program constants *)

Percent == 100
EventsPerSessionLimit == 5
TotalEventsLimit == 10
SinglePageEventsLimit == 5
SinglePage == 1

(* Model constants *)

TicksPerDay == 2
NoProduct == 0

-----------------------------------------------------------------------------
(* Generic helpers *)

Range(s) == {s[i] : i \in DOMAIN s}

MinOf(S) == CHOOSE m \in S : \A x \in S : m <= x

Column(rows, c) == [i \in DOMAIN rows |-> rows[i][c]]

GroupRows(rows, c, k) == SelectSeq(rows, LAMBDA r : r[c] = k)

Identity(S) == [k \in S |-> k]

RECURSIVE SortKeys(_, _)
SortKeys(S, rank) ==
    IF S = {} THEN <<>>
    ELSE LET m == CHOOSE k \in S : \A x \in S : rank[k] <= rank[x]
         IN <<m>> \o SortKeys(S \ {m}, rank)

PageTypesSorted == <<"cart_page", "home", "product_page">>

PageTypeRank ==
    [p \in Range(PageTypesSorted) |->
        CHOOSE i \in DOMAIN PageTypesSorted : PageTypesSorted[i] = p]

RECURSIVE SumSeq(_)
SumSeq(s) == IF s = <<>> THEN 0 ELSE Head(s) + SumSeq(Tail(s))

RECURSIVE Flatten(_)
Flatten(ss) == IF ss = <<>> THEN <<>> ELSE Head(ss) \o Flatten(Tail(ss))

Repeat(e, n) == [i \in 1..n |-> e]

Frac(n, d) == [num |-> n, den |-> d]
FracTimes(q, k) == [num |-> q.num * k, den |-> q.den]
FracGT(q, k) == q.num > k * q.den

EventColumns == <<"event_date", "session", "user", "page_type", "event_type", "product">>

NoTable == [columns |-> <<>>, rows |-> <<>>]

-----------------------------------------------------------------------------
(* ETL.py *)

load_data(file) == [columns |-> EventColumns, rows |-> file]

SortRowsByDate(g) ==
    LET rank  == [i \in DOMAIN g |-> g[i].event_date * (Len(g) + 1) + i]
        order == SortKeys(DOMAIN g, rank)
    IN [n \in DOMAIN order |-> g[order[n]]]

(* Mutant: the events are sorted by event_date before they are grouped. *)
JourneyOfSortedByDate(rows, k) ==
    LET g  == SortRowsByDate(GroupRows(rows, "session", k))
        pt == Column(g, "page_type")
        et == Column(g, "event_type")
    IN [session          |-> k,
        event_date       |-> MinOf(Range(Column(g, "event_date"))),
        user             |-> g[1].user,
        page_type        |-> pt,
        event_type       |-> et,
        product          |-> Column(g, "product"),
        first_page_type  |-> pt[1],
        reached_product  |-> "product_page" \in Range(pt),
        reached_cart     |-> "add_to_cart" \in Range(et),
        reached_purchase |-> "order" \in Range(et)]

JourneyOf(rows, k) ==
    LET g  == GroupRows(rows, "session", k)
        pt == Column(g, "page_type")
        et == Column(g, "event_type")
    IN [session          |-> k,
        event_date       |-> MinOf(Range(Column(g, "event_date"))),
        user             |-> g[1].user,
        page_type        |-> pt,
        event_type       |-> et,
        product          |-> Column(g, "product"),
        first_page_type  |-> pt[1],
        reached_product  |-> "product_page" \in Range(pt),
        reached_cart     |-> "add_to_cart" \in Range(et),
        reached_purchase |-> "order" \in Range(et)]

analyze_funnel(d) ==
    LET S    == Range(Column(d.rows, "session"))
        keys == SortKeys(S, Identity(S))
    IN [columns |-> <<"session", "event_date", "user", "page_type", "event_type",
                      "product", "first_page_type", "reached_product",
                      "reached_cart", "reached_purchase">>,
        rows    |-> [i \in DOMAIN keys |-> JourneyOf(d.rows, keys[i])]]

(* Mutant: the flag is aggregated with 'sum' instead of 'mean'. *)
MeanOfAsSum(g, c) == Frac(Cardinality({i \in DOMAIN g : g[i][c]}), 1)

MeanOf(g, c) == Frac(Cardinality({i \in DOMAIN g : g[i][c]}), Len(g))

SegmentOf(rows, k) ==
    LET g == GroupRows(rows, "first_page_type", k)
    IN [first_page_type   |-> k,
        total_sessions    |-> Len(g),
        product_view_rate |-> FracTimes(MeanOf(g, "reached_product"), Percent),
        cart_rate         |-> FracTimes(MeanOf(g, "reached_cart"), Percent),
        purchase_rate     |-> FracTimes(MeanOf(g, "reached_purchase"), Percent)]

analyze_by_first_page(sj) ==
    LET keys == SortKeys(Range(Column(sj.rows, "first_page_type")), PageTypeRank)
    IN [columns |-> <<"first_page_type", "total_sessions", "product_view_rate",
                      "cart_rate", "purchase_rate">>,
        rows    |-> [i \in DOMAIN keys |-> SegmentOf(sj.rows, keys[i])]]

DateOf(ts) == ts \div TicksPerDay

FirstSessions(d) ==
    LET U    == Range(Column(d.rows, "user"))
        keys == SortKeys(U, Identity(U))
        first(u) == MinOf(Range(Column(GroupRows(d.rows, "user", u), "event_date")))
    IN [i \in DOMAIN keys |->
          [user |-> keys[i], event_date |-> first(keys[i]), date |-> DateOf(first(keys[i]))]]

WithDate(d) ==
    [columns |-> IF "date" \in Range(d.columns) THEN d.columns
                 ELSE Append(d.columns, "date"),
     rows    |-> [i \in DOMAIN d.rows |->
                    ("date" :> DateOf(d.rows[i].event_date)) @@ d.rows[i]]]

(* Mutant: the join keeps every event of the user, whatever its date. *)
MergeOnUserOnly(rows, first) ==
    SelectSeq(rows, LAMBDA r : \E j \in DOMAIN first : first[j].user = r.user)

MergeOnUserDate(rows, first) ==
    SelectSeq(rows, LAMBDA r : \E j \in DOMAIN first :
                                  first[j].user = r.user /\ first[j].date = r.date)

ProductOnly(merged) ==
    LET U    == Range(Column(merged, "user"))
        keys == SortKeys(U, Identity(U))
        row(u) == LET g == GroupRows(merged, "user", u)
                  IN [user       |-> u,
                      date       |-> g[1].date,
                      event_type |-> \A i \in DOMAIN g : g[i].event_type = "page_view",
                      page_type  |-> \E i \in DOMAIN g : g[i].page_type = "product_page"]
    IN [i \in DOMAIN keys |-> row(keys[i])]

analyze_product_only_viewers(d) ==
    LET first   == FirstSessions(d)
        merged  == MergeOnUserDate(WithDate(d).rows, first)
        only    == SelectSeq(ProductOnly(merged), LAMBDA r : r.event_type /\ r.page_type)
        D       == Range(Column(only, "date"))
        keys    == SortKeys(D, Identity(D))
    IN [columns |-> <<"date", "viewers_count">>,
        rows    |-> [i \in DOMAIN keys |->
                       [date |-> keys[i],
                        viewers_count |-> Len(GroupRows(only, "date", keys[i]))]]]

UserMetrics(d) ==
    LET U    == Range(Column(d.rows, "user"))
        keys == SortKeys(U, Identity(U))
        row(u) == LET g == GroupRows(d.rows, "user", u)
                  IN [user              |-> u,
                      session_count     |-> Cardinality(Range(Column(g, "session"))),
                      total_events      |-> Len(g),
                      unique_page_types |-> Cardinality(Range(Column(g, "page_type")))]
    IN [columns |-> <<"user", "session_count", "total_events", "unique_page_types">>,
        rows    |-> [i \in DOMAIN keys |-> row(keys[i])]]

WithEventsPerSession(um) ==
    [columns |-> Append(um.columns, "events_per_session"),
     rows    |-> [i \in DOMAIN um.rows |->
                    ("events_per_session" :>
                        Frac(um.rows[i].total_events, um.rows[i].session_count))
                    @@ um.rows[i]]]

(* Mutant: the total_events threshold is inclusive. *)
IsAbnormalInclusive(r) ==
    \/ FracGT(r.events_per_session, EventsPerSessionLimit)
    \/ r.total_events >= TotalEventsLimit
    \/ (r.unique_page_types = SinglePage /\ r.total_events > SinglePageEventsLimit)

(* Mutant: the single-page condition compares total_events the wrong way round. *)
IsAbnormalReversed(r) ==
    \/ FracGT(r.events_per_session, EventsPerSessionLimit)
    \/ r.total_events > TotalEventsLimit
    \/ (r.unique_page_types = SinglePage /\ r.total_events < SinglePageEventsLimit)

IsAbnormal(r) ==
    \/ FracGT(r.events_per_session, EventsPerSessionLimit)
    \/ r.total_events > TotalEventsLimit
    \/ (r.unique_page_types = SinglePage /\ r.total_events > SinglePageEventsLimit)

AbnormalUsers(um) ==
    [columns |-> um.columns, rows |-> SelectSeq(um.rows, IsAbnormal)]

detect_abnormal_behavior(d) == AbnormalUsers(WithEventsPerSession(UserMetrics(d)))

-----------------------------------------------------------------------------
(* Idle parts: a specification that runs one program leaves the other alone *)

LoaderIdle ==
    /\ chunksize = 1
    /\ lpc = "idle"
    /\ connection = "unbound"
    /\ alive = FALSE
    /\ cursor = "unbound"
    /\ table_created = FALSE
    /\ committed = <<>>
    /\ pending = <<>>
    /\ pos = 0
    /\ chunk = <<>>
    /\ total_records = 0
    /\ logged_total = -1
    /\ optimized = FALSE
    /\ exc = "none"
    /\ first_exc = "none"
    /\ failed_batch = 0
    /\ trace = <<>>

NoResults ==
    /\ session_journeys = NoTable
    /\ first_page_analysis = NoTable
    /\ product_viewers = NoTable
    /\ user_metrics = NoTable
    /\ abnormal_behavior = NoTable
    /\ files = [f \in {"funnel_data.csv", "first_page_analysis.csv",
                       "product_viewers.csv", "abnormal_behavior.csv"} |-> "absent"]
    /\ steps = <<>>

LogsUpTo(E, n) == UNION {[1..k -> E] : k \in 0..n}

-----------------------------------------------------------------------------
(* analyze_funnel and analyze_by_first_page applied to a bounded event log *)

\* An event of a product page carries a product id, an event of the home page none.
FunnelEvents ==
    {e \in [event_date : {0, 1}, session : {1, 2}, user : {1},
            page_type : {"home", "product_page"},
            event_type : {"page_view", "add_to_cart", "order"},
            product : {NoProduct, 1}] :
        (e.product = NoProduct) <=> (e.page_type = "home")}

InitFunnel ==
    /\ data \in LogsUpTo(FunnelEvents, MaxFunnelLen)
    /\ df = load_data(data)
    /\ pc = "call"
    /\ NoResults
    /\ LoaderIdle

CallFunnel ==
    /\ pc = "call"
    /\ session_journeys' = analyze_funnel(df)
    /\ first_page_analysis' = analyze_by_first_page(session_journeys')
    /\ pc' = "return"
    /\ UNCHANGED <<data, df, product_viewers, user_metrics, abnormal_behavior, files,
                   steps, loader_vars>>

NextFunnel == CallFunnel

SpecFunnel == InitFunnel /\ [][NextFunnel]_vars

(* What the claims speak of, stated on the input file itself *)

SessionsOf(log) == {log[i].session : i \in DOMAIN log}

\* The position in the log of the n-th event of session s.
NthEventOf(log, s, n) ==
    CHOOSE i \in DOMAIN log :
        /\ log[i].session = s
        /\ Cardinality({k \in 1..i : log[k].session = s}) = n

CountOf(log, s) == Cardinality({i \in DOMAIN log : log[i].session = s})

JourneyMatches(j, log) ==
    LET n == CountOf(log, j.session)
    IN /\ Len(j.page_type) = n
       /\ Len(j.event_type) = n
       /\ Len(j.product) = n
       /\ \A m \in 1..n :
            LET e == log[NthEventOf(log, j.session, m)]
            IN /\ j.page_type[m] = e.page_type
               /\ j.event_type[m] = e.event_type
               /\ j.product[m] = e.product

\* C3: analyze_funnel yields exactly one journey per distinct session id, and the
\* page_type, event_type and product sequences of a journey have the length of the
\* session's event count, their i-th element being that of the i-th event of the
\* session in input row order.
C3_JourneysFollowRowOrder ==
    pc = "return" =>
        LET J == session_journeys.rows
        IN /\ \A s \in SessionsOf(data) :
                Cardinality({i \in DOMAIN J : J[i].session = s}) = 1
           /\ \A i \in DOMAIN J : J[i].session \in SessionsOf(data)
           /\ \A i \in DOMAIN J : JourneyMatches(J[i], data)

\* A session whose two events are out of date order, with an event of another
\* session between them, has been aggregated.
C3_Witness ==
    /\ pc = "return"
    /\ Len(data) = 3
    /\ data[1].session = data[3].session
    /\ data[1].session # data[2].session
    /\ data[1].event_date > data[3].event_date
    /\ data[1].page_type # data[3].page_type
    /\ Len(session_journeys.rows) = 2

RateInRange(r) == r.den > 0 /\ 0 <= r.num /\ r.num <= 100 * r.den

\* C4: every rate of every first-page segment lies in [0, 100], and total_sessions
\* summed over the segments is the number of distinct session ids of the input.
C4_RatesAndSessionTotal ==
    pc = "return" =>
        LET A == first_page_analysis.rows
        IN /\ \A i \in DOMAIN A :
                /\ RateInRange(A[i].product_view_rate)
                /\ RateInRange(A[i].cart_rate)
                /\ RateInRange(A[i].purchase_rate)
           /\ SumSeq(Column(A, "total_sessions")) = Cardinality(SessionsOf(data))

\* A segment of two sessions, both of which reached the product page and one of
\* which purchased.
C4_Witness ==
    /\ pc = "return"
    /\ \E i \in DOMAIN first_page_analysis.rows :
         LET r == first_page_analysis.rows[i]
         IN /\ r.total_sessions = 2
            /\ r.product_view_rate.num = 100 * r.product_view_rate.den
            /\ 0 < r.purchase_rate.num
            /\ r.purchase_rate.num < 100 * r.purchase_rate.den

-----------------------------------------------------------------------------
(* analyze_product_only_viewers applied to a bounded event log *)

\* Ticks 0 and 1 fall on day 0 and tick 2 on day 1; each tick is a visit of its own.
ViewerEvents ==
    {e \in [event_date : {0, 1, 2}, session : {1, 2, 3}, user : {1, 2},
            page_type : {"home", "product_page"},
            event_type : {"page_view", "add_to_cart"}, product : {NoProduct}] :
        e.session = e.event_date + 1}

InitViewers ==
    /\ data \in LogsUpTo(ViewerEvents, MaxViewerLen)
    /\ df = load_data(data)
    /\ pc = "call"
    /\ NoResults
    /\ LoaderIdle

CallViewers ==
    /\ pc = "call"
    /\ product_viewers' = analyze_product_only_viewers(df)
    /\ df' = WithDate(df)
    /\ pc' = "return"
    /\ UNCHANGED <<data, session_journeys, first_page_analysis, user_metrics,
                   abnormal_behavior, files, steps, loader_vars>>

NextViewers == CallViewers

SpecViewers == InitViewers /\ [][NextViewers]_vars

UsersOf(log) == {log[i].user : i \in DOMAIN log}

FirstDateOf(log, u) ==
    LET first == MinOf({log[i].event_date : i \in {k \in DOMAIN log : log[k].user = u}})
    IN first \div TicksPerDay

FirstDayEvents(log, u) ==
    {i \in DOMAIN log : /\ log[i].user = u
                        /\ log[i].event_date \div TicksPerDay = FirstDateOf(log, u)}

Qualifies(log, u) ==
    /\ FirstDayEvents(log, u) # {}
    /\ \A i \in FirstDayEvents(log, u) : log[i].event_type = "page_view"
    /\ \E i \in FirstDayEvents(log, u) : log[i].page_type = "product_page"

QualifiedOn(log, d) == {u \in UsersOf(log) : Qualifies(log, u) /\ FirstDateOf(log, u) = d}

DatesOf(log) == {log[i].event_date \div TicksPerDay : i \in DOMAIN log}

\* C1: viewers_count of a date is the number of distinct users whose first active
\* date it is and whose events of that date, over all their sessions, are all
\* page_view and include a product_page view; a date with no such user has no row,
\* so a user is counted in the row of the first active date iff qualifying, and in
\* no other row.
C1_ViewersCountedOnFirstDate ==
    pc = "return" =>
        LET V == product_viewers.rows
        IN /\ \A i \in DOMAIN V : V[i].date \in DatesOf(data)
           /\ \A d \in DatesOf(data) :
                LET n    == Cardinality(QualifiedOn(data, d))
                    rows == {i \in DOMAIN V : V[i].date = d}
                IN IF n = 0 THEN rows = {}
                   ELSE /\ Cardinality(rows) = 1
                        /\ \A i \in rows : V[i].viewers_count = n

\* A user whose first day spans two sessions (a home view, then a product view)
\* and who adds to the cart on a later day has been counted on the first day.
C1_Witness ==
    /\ pc = "return"
    /\ Len(data) = 3
    /\ data[1].user = data[2].user
    /\ data[1].user = data[3].user
    /\ data[1].session # data[2].session
    /\ data[1].event_date \div TicksPerDay = data[2].event_date \div TicksPerDay
    /\ data[3].event_date \div TicksPerDay > data[1].event_date \div TicksPerDay
    /\ data[1].page_type = "home"
    /\ data[2].page_type = "product_page"
    /\ data[3].event_type = "add_to_cart"
    /\ Len(product_viewers.rows) = 1
    /\ product_viewers.rows[1].viewers_count = 1

-----------------------------------------------------------------------------
(* detect_abnormal_behavior applied to a bounded event log: the log is a     *)
(* concatenation of runs, a run being one event repeated                     *)

AnomalyEvents ==
    [event_date : {0}, session : {1, 2}, user : {1, 2},
     page_type : {"home", "product_page"},
     event_type : {"page_view"}, product : {NoProduct}]

InitAnomaly ==
    /\ \E k \in 0..MaxRuns :
         \E runs \in [1..k -> AnomalyEvents \X (1..MaxRunLen)] :
            data = Flatten([i \in 1..k |-> Repeat(runs[i][1], runs[i][2])])
    /\ df = load_data(data)
    /\ pc = "call"
    /\ NoResults
    /\ LoaderIdle

CallDetect ==
    /\ pc = "call"
    /\ user_metrics' = WithEventsPerSession(UserMetrics(df))
    /\ abnormal_behavior' = detect_abnormal_behavior(df)
    /\ pc' = "return"
    /\ UNCHANGED <<data, df, session_journeys, first_page_analysis, product_viewers,
                   files, steps, loader_vars>>

NextAnomaly == CallDetect

SpecAnomaly == InitAnomaly /\ [][NextAnomaly]_vars

RowsOfUser(log, u) == {i \in DOMAIN log : log[i].user = u}
SessionCount(log, u) == Cardinality({log[i].session : i \in RowsOfUser(log, u)})
TotalEvents(log, u) == Cardinality(RowsOfUser(log, u))
UniquePageTypes(log, u) == Cardinality({log[i].page_type : i \in RowsOfUser(log, u)})

ShouldFlag(s, t, p) == t > 5 * s \/ t > 10 \/ (p = 1 /\ t > 5)

\* C2: the metrics record of a user is returned iff events_per_session > 5 or
\* total_events > 10 or (unique_page_types = 1 and total_events > 5), the metrics
\* being the user's distinct sessions, row count, distinct page types and their
\* quotient; every comparison is strict.
C2_FlaggedIffOverThreshold ==
    pc = "return" =>
        LET A == abnormal_behavior.rows
        IN /\ \A i \in DOMAIN A : A[i].user \in UsersOf(data)
           /\ \A u \in UsersOf(data) :
                LET s    == SessionCount(data, u)
                    t    == TotalEvents(data, u)
                    p    == UniquePageTypes(data, u)
                    rows == {i \in DOMAIN A : A[i].user = u}
                IN IF ShouldFlag(s, t, p)
                   THEN /\ Cardinality(rows) = 1
                        /\ \A i \in rows :
                             /\ A[i].session_count = s
                             /\ A[i].total_events = t
                             /\ A[i].unique_page_types = p
                             /\ A[i].events_per_session.num * s
                                  = t * A[i].events_per_session.den
                   ELSE rows = {}

\* A user with exactly 10 events in 2 sessions (5 per session) over 2 page types
\* is not returned, and a user with a single page type and exactly 5 events
\* neither.
C2_Witness ==
    /\ pc = "return"
    /\ \E u \in UsersOf(data) :
         /\ TotalEvents(data, u) = 10
         /\ SessionCount(data, u) = 2
         /\ UniquePageTypes(data, u) = 2
         /\ \A i \in DOMAIN abnormal_behavior.rows : abnormal_behavior.rows[i].user # u

\* A user with 6 events of a single page type over 2 sessions is returned: the
\* third condition alone.
C2_WitnessFlagged ==
    /\ pc = "return"
    /\ \E i \in DOMAIN abnormal_behavior.rows :
         LET r == abnormal_behavior.rows[i]
         IN r.total_events = 6 /\ r.session_count = 2 /\ r.unique_page_types = 1

-----------------------------------------------------------------------------
(* The filter of detect_abnormal_behavior applied to a bounded metrics table *)
(* of two users                                                              *)

MetricTriples ==
    {m \in (1..MaxSessions) \X (1..MaxEvents) \X (1..MaxPageTypes) :
        m[1] <= m[2] /\ m[3] <= m[2]}

MetricsRow(u, m) ==
    [user |-> u, session_count |-> m[1], total_events |-> m[2],
     unique_page_types |-> m[3]]

InitMetrics ==
    /\ data = <<>>
    /\ df = load_data(data)
    /\ pc = "call"
    /\ session_journeys = NoTable
    /\ first_page_analysis = NoTable
    /\ product_viewers = NoTable
    /\ \E m1 \in MetricTriples, m2 \in MetricTriples :
         user_metrics =
            [columns |-> <<"user", "session_count", "total_events", "unique_page_types">>,
             rows    |-> <<MetricsRow(1, m1), MetricsRow(2, m2)>>]
    /\ abnormal_behavior = NoTable
    /\ files = [f \in {"funnel_data.csv", "first_page_analysis.csv",
                       "product_viewers.csv", "abnormal_behavior.csv"} |-> "absent"]
    /\ steps = <<>>
    /\ LoaderIdle

FilterMetrics ==
    /\ pc = "call"
    /\ user_metrics' = WithEventsPerSession(user_metrics)
    /\ abnormal_behavior' = AbnormalUsers(user_metrics')
    /\ pc' = "return"
    /\ UNCHANGED <<data, df, session_journeys, first_page_analysis, product_viewers,
                   files, steps, loader_vars>>

NextMetrics == FilterMetrics

SpecMetrics == InitMetrics /\ [][NextMetrics]_vars

Flagged(u) == \E i \in DOMAIN abnormal_behavior.rows : abnormal_behavior.rows[i].user = u

\* C9: of two users with the same session_count and the same unique_page_types,
\* if the one with fewer total_events is flagged, so is the one with more.
C9_FlagMonotonicInTotalEvents ==
    pc = "return" =>
        \A i, j \in DOMAIN user_metrics.rows :
            LET a == user_metrics.rows[i]
                b == user_metrics.rows[j]
            IN (/\ a.session_count = b.session_count
                /\ a.unique_page_types = b.unique_page_types
                /\ a.total_events < b.total_events
                /\ Flagged(a.user))
               => Flagged(b.user)

\* Two users of 2 sessions and 1 page type, one with 6 events and one with 7, are
\* both flagged, while a user with 5 would not be.
C9_Witness ==
    /\ pc = "return"
    /\ \E i, j \in DOMAIN user_metrics.rows :
         LET a == user_metrics.rows[i]
             b == user_metrics.rows[j]
         IN /\ a.session_count = 2 /\ b.session_count = 2
            /\ a.unique_page_types = 1 /\ b.unique_page_types = 1
            /\ a.total_events = 6 /\ b.total_events = 7
            /\ Flagged(a.user) /\ Flagged(b.user)

-----------------------------------------------------------------------------
(* ETL.py, main: load, the four analyses, the four writes; any step may fail *)

MainOrder ==
    <<"load_data", "analyze_funnel", "analyze_by_first_page",
      "analyze_product_only_viewers", "detect_abnormal_behavior",
      "funnel_data.csv", "first_page_analysis.csv", "product_viewers.csv",
      "abnormal_behavior.csv">>

Successor(step) ==
    LET i == CHOOSE k \in DOMAIN MainOrder : MainOrder[k] = step
    IN IF i = Len(MainOrder) THEN "done" ELSE MainOrder[i + 1]

(* Mutant: main catches the exception of a step and carries on. *)
AfterSwallowing(step, ok) == Successor(step)

\* An exception is not caught in main: it ends the run.
After(step, ok) == IF ok THEN Successor(step) ELSE "failed"

Did(step, ok) ==
    /\ steps' = Append(steps, <<step, ok>>)
    /\ pc' = After(step, ok)

MainEvents ==
    [event_date : {0, 2}, session : {1, 2}, user : {1},
     page_type : {"home", "product_page"},
     event_type : {"page_view", "order"}, product : {NoProduct}]

Init ==
    /\ data \in LogsUpTo(MainEvents, MaxMainLen)
    /\ df = NoTable
    /\ pc = "load_data"
    /\ NoResults
    /\ LoaderIdle

LoadData ==
    /\ pc = "load_data"
    /\ \E ok \in BOOLEAN :
         /\ df' = IF ok THEN load_data(data) ELSE df
         /\ Did("load_data", ok)
    /\ UNCHANGED <<data, session_journeys, first_page_analysis, product_viewers,
                   user_metrics, abnormal_behavior, files, loader_vars>>

AnalyzeFunnel ==
    /\ pc = "analyze_funnel"
    /\ \E ok \in BOOLEAN :
         /\ session_journeys' = IF ok THEN analyze_funnel(df) ELSE session_journeys
         /\ Did("analyze_funnel", ok)
    /\ UNCHANGED <<data, df, first_page_analysis, product_viewers, user_metrics,
                   abnormal_behavior, files, loader_vars>>

AnalyzeByFirstPage ==
    /\ pc = "analyze_by_first_page"
    /\ \E ok \in BOOLEAN :
         /\ first_page_analysis' =
               IF ok THEN analyze_by_first_page(session_journeys)
               ELSE first_page_analysis
         /\ Did("analyze_by_first_page", ok)
    /\ UNCHANGED <<data, df, session_journeys, product_viewers, user_metrics,
                   abnormal_behavior, files, loader_vars>>

\* Line 50 assigns the 'date' column on the caller's table; a failure may come
\* before or after it.
AnalyzeProductOnlyViewers ==
    /\ pc = "analyze_product_only_viewers"
    /\ \/ /\ product_viewers' = analyze_product_only_viewers(df)
          /\ df' = WithDate(df)
          /\ Did("analyze_product_only_viewers", TRUE)
       \/ /\ product_viewers' = product_viewers
          /\ df' \in {df, WithDate(df)}
          /\ Did("analyze_product_only_viewers", FALSE)
    /\ UNCHANGED <<data, session_journeys, first_page_analysis, user_metrics,
                   abnormal_behavior, files, loader_vars>>

DetectAbnormalBehavior ==
    /\ pc = "detect_abnormal_behavior"
    /\ \E ok \in BOOLEAN :
         /\ user_metrics' =
               IF ok THEN WithEventsPerSession(UserMetrics(df)) ELSE user_metrics
         /\ abnormal_behavior' =
               IF ok THEN detect_abnormal_behavior(df) ELSE abnormal_behavior
         /\ Did("detect_abnormal_behavior", ok)
    /\ UNCHANGED <<data, df, session_journeys, first_page_analysis, product_viewers,
                   files, loader_vars>>

\* to_csv: a failed write leaves no file or a part of it.
WriteCsv(f) ==
    /\ pc = f
    /\ \/ /\ files' = [files EXCEPT ![f] = "complete"]
          /\ Did(f, TRUE)
       \/ /\ \E left \in {"absent", "partial"} : files' = [files EXCEPT ![f] = left]
          /\ Did(f, FALSE)
    /\ UNCHANGED <<data, df, session_journeys, first_page_analysis, product_viewers,
                   user_metrics, abnormal_behavior, loader_vars>>

WriteFunnel == WriteCsv("funnel_data.csv")
WriteFirstPage == WriteCsv("first_page_analysis.csv")
WriteViewers == WriteCsv("product_viewers.csv")
WriteAbnormal == WriteCsv("abnormal_behavior.csv")

Next ==
    \/ LoadData
    \/ AnalyzeFunnel
    \/ AnalyzeByFirstPage
    \/ AnalyzeProductOnlyViewers
    \/ DetectAbnormalBehavior
    \/ WriteFunnel
    \/ WriteFirstPage
    \/ WriteViewers
    \/ WriteAbnormal

Spec == Init /\ [][Next]_vars

StageOf(f) ==
    CASE f = "funnel_data.csv"         -> "analyze_funnel"
      [] f = "first_page_analysis.csv" -> "analyze_by_first_page"
      [] f = "product_viewers.csv"     -> "analyze_product_only_viewers"
      [] f = "abnormal_behavior.csv"   -> "detect_abnormal_behavior"

\* C7 (as claimed): once loaded, the event table stays as load_data returned it,
\* whatever analyses have run on it.
C7_EventTableUnchanged ==
    (steps # <<>> /\ steps[1][2]) => df = load_data(data)

\* C8: the steps of main run in program order; nothing runs after a failed step,
\* which ends the run; and an output file exists, whole or in part, only if the
\* stage that computes it completed and its write was reached.
C8_FailFastAndFilesOfCompletedStages ==
    /\ Len(steps) <= Len(MainOrder)
    /\ \A i \in DOMAIN steps : steps[i][1] = MainOrder[i]
    /\ \A i \in DOMAIN steps : ~steps[i][2] => (i = Len(steps) /\ pc = "failed")
    /\ \A f \in DOMAIN files :
         files[f] # "absent" =>
            /\ <<StageOf(f), TRUE>> \in Range(steps)
            /\ \E i \in DOMAIN steps : steps[i][1] = f
    /\ \A f \in DOMAIN files :
         files[f] = "complete" => <<f, TRUE>> \in Range(steps)

\* The write of the second file failed half-way: the run has ended, the first file
\* is whole and the last two were never written.
C8_Witness ==
    /\ pc = "failed"
    /\ Len(data) > 0
    /\ files["funnel_data.csv"] = "complete"
    /\ files["first_page_analysis.csv"] = "partial"
    /\ files["product_viewers.csv"] = "absent"
    /\ files["abnormal_behavior.csv"] = "absent"
    /\ steps[Len(steps)] = <<"first_page_analysis.csv", FALSE>>

-----------------------------------------------------------------------------
(* csv_to_sql.py, import_csv_to_mysql.  "Error" is mysql.connector.Error,    *)
(* "Exception" any other exception (pandas raises those), and               *)
(* "UnboundLocalError" the use of a local variable that was never assigned.  *)

Raise(e) ==
    /\ exc' = e
    /\ first_exc' = IF first_exc = "none" THEN e ELSE first_exc

NoRaise == UNCHANGED <<exc, first_exc>>

Log(op) == trace' = Append(trace, op)

Exit == IF exc = "none" THEN "returned" ELSE "raised"

BatchNumber == Cardinality({i \in DOMAIN trace : trace[i][1] = "read"})

MinInt(a, b) == IF a <= b THEN a ELSE b

LoaderRows ==
    [event_date : {0}, session : {1}, user : {1}, page_type : {"home", "product_page"},
     event_type : {"page_view"}, product : {NoProduct}]

InitLoader ==
    /\ data \in LogsUpTo(LoaderRows, MaxRows)
    /\ df = NoTable
    /\ pc = "idle"
    /\ NoResults
    /\ chunksize \in 1..MaxChunk
    /\ lpc = "connect"
    /\ connection = "unbound"
    /\ alive = FALSE
    /\ cursor = "unbound"
    /\ table_created = FALSE
    /\ committed = <<>>
    /\ pending = <<>>
    /\ pos = 0
    /\ chunk = <<>>
    /\ total_records = 0
    /\ logged_total = -1
    /\ optimized = FALSE
    /\ exc = "none"
    /\ first_exc = "none"
    /\ failed_batch = 0
    /\ trace = <<>>

\* Lines 86-94: mysql.connector.connect.
Connect ==
    /\ lpc = "connect"
    /\ \/ /\ connection' = "open"
          /\ lpc' = "is_connected"
          /\ NoRaise
       \/ /\ connection' = connection
          /\ Raise("Error")
          /\ lpc' = "except"
    /\ UNCHANGED <<etl_vars, chunksize, alive, cursor, table_created, committed, pending,
                   pos, chunk, total_records, logged_total, optimized, failed_batch,
                   trace>>

\* Line 96: the body runs only on a connection that answers.
IsConnected ==
    /\ lpc = "is_connected"
    /\ \E answer \in BOOLEAN :
         /\ alive' = answer
         /\ lpc' = IF answer THEN "cursor" ELSE "finally"
    /\ UNCHANGED <<etl_vars, chunksize, connection, cursor, table_created, committed,
                   pending, pos, chunk, total_records, logged_total, optimized, exc,
                   first_exc, failed_batch, trace>>

\* Line 97.
CreateCursor ==
    /\ lpc = "cursor"
    /\ \/ /\ cursor' = "open"
          /\ lpc' = "create_table"
          /\ NoRaise
       \/ /\ cursor' = cursor
          /\ Raise("Error")
          /\ lpc' = "except"
    /\ UNCHANGED <<etl_vars, chunksize, connection, alive, table_created, committed,
                   pending, pos, chunk, total_records, logged_total, optimized,
                   failed_batch, trace>>

\* Line 99, create_table_if_not_exists: an Error is logged and raised again.
CreateTable ==
    /\ lpc = "create_table"
    /\ \/ /\ table_created' = TRUE
          /\ Log(<<"create_table">>)
          /\ lpc' = "read_chunk"
          /\ NoRaise
       \/ /\ table_created' = table_created
          /\ trace' = trace
          /\ Raise("Error")
          /\ lpc' = "except"
    /\ UNCHANGED <<etl_vars, chunksize, connection, alive, cursor, committed, pending,
                   pos, chunk, total_records, logged_total, optimized, failed_batch>>

\* Line 101, process_csv_in_chunks: the next chunksize rows of the file, the end
\* of the file, or a read or parse failure, which is logged and raised again.
ReadChunk ==
    /\ lpc = "read_chunk"
    /\ \/ /\ pos < Len(data)
          /\ pos' = MinInt(pos + chunksize, Len(data))
          /\ chunk' = SubSeq(data, pos + 1, pos')
          /\ Log(<<"read", chunk'>>)
          /\ lpc' = "executemany"
          /\ NoRaise
       \/ /\ pos = Len(data)
          /\ lpc' = "optimize"
          /\ UNCHANGED <<pos, chunk, trace>>
          /\ NoRaise
       \/ /\ Raise("Exception")
          /\ lpc' = "finally"
          /\ UNCHANGED <<pos, chunk, trace>>
    /\ UNCHANGED <<etl_vars, chunksize, connection, alive, cursor, table_created,
                   committed, pending, total_records, logged_total, optimized,
                   failed_batch>>

\* Lines 63-64, insert_data_batch: one multi-row statement in the open transaction;
\* a failed statement may leave some of its rows in the transaction.
ExecuteMany ==
    /\ lpc = "executemany"
    /\ Log(<<"executemany", chunk>>)
    /\ \/ /\ pending' = chunk
          /\ lpc' = "commit"
          /\ failed_batch' = failed_batch
          /\ NoRaise
       \/ /\ \E n \in 0..(Len(chunk) - 1) : pending' = SubSeq(chunk, 1, n)
          /\ failed_batch' = BatchNumber
          /\ Raise("Error")
          /\ lpc' = "rollback"
    /\ UNCHANGED <<etl_vars, chunksize, connection, alive, cursor, table_created,
                   committed, pos, chunk, total_records, logged_total, optimized>>

\* Lines 65-66.
Commit ==
    /\ lpc = "commit"
    /\ \/ /\ committed' = committed \o pending
          /\ pending' = <<>>
          /\ Log(<<"commit">>)
          /\ lpc' = "count"
          /\ failed_batch' = failed_batch
          /\ NoRaise
       \/ /\ UNCHANGED <<committed, pending, trace>>
          /\ failed_batch' = BatchNumber
          /\ Raise("Error")
          /\ lpc' = "rollback"
    /\ UNCHANGED <<etl_vars, chunksize, connection, alive, cursor, table_created, pos,
                   chunk, total_records, logged_total, optimized>>

(* Mutant: the Error of a batch is logged and rolled back but not raised again, *)
(* so the loop goes on with the next batch.                                     *)
RollbackAndContinue ==
    /\ lpc = "rollback"
    /\ pending' = <<>>
    /\ Log(<<"rollback">>)
    /\ exc' = "none"
    /\ lpc' = "read_chunk"
    /\ UNCHANGED <<etl_vars, chunksize, connection, alive, cursor, table_created,
                   committed, pos, chunk, total_records, logged_total, optimized,
                   first_exc, failed_batch>>

\* Lines 67-70: the Error is logged, the transaction rolled back, the Error raised
\* again.  A rollback that fails raises its own Error in place of the first and
\* leaves the transaction open.
Rollback ==
    /\ lpc = "rollback"
    /\ \/ /\ pending' = <<>>
          /\ Log(<<"rollback">>)
          /\ NoRaise
       \/ /\ UNCHANGED <<pending, trace>>
          /\ Raise("Error")
    /\ lpc' = "except"
    /\ UNCHANGED <<etl_vars, chunksize, connection, alive, cursor, table_created,
                   committed, pos, chunk, total_records, logged_total, optimized,
                   failed_batch>>

(* Mutant: the counter advances by chunksize, not by the rows of the chunk. *)
CountRecordsByChunksize ==
    /\ lpc = "count"
    /\ total_records' = total_records + chunksize
    /\ lpc' = "read_chunk"
    /\ UNCHANGED <<etl_vars, chunksize, connection, alive, cursor, table_created,
                   committed, pending, pos, chunk, logged_total, optimized, exc,
                   first_exc, failed_batch, trace>>

\* Line 103.
CountRecords ==
    /\ lpc = "count"
    /\ total_records' = total_records + Len(chunk)
    /\ lpc' = "read_chunk"
    /\ UNCHANGED <<etl_vars, chunksize, connection, alive, cursor, table_created,
                   committed, pending, pos, chunk, logged_total, optimized, exc,
                   first_exc, failed_batch, trace>>

\* Line 105.
Optimize ==
    /\ lpc = "optimize"
    /\ \/ /\ optimized' = TRUE
          /\ Log(<<"optimize">>)
          /\ lpc' = "log"
          /\ NoRaise
       \/ /\ UNCHANGED <<optimized, trace>>
          /\ Raise("Error")
          /\ lpc' = "except"
    /\ UNCHANGED <<etl_vars, chunksize, connection, alive, cursor, table_created,
                   committed, pending, pos, chunk, total_records, logged_total,
                   failed_batch>>

\* Lines 107-110.
LogCompletion ==
    /\ lpc = "log"
    /\ logged_total' = total_records
    /\ lpc' = "finally"
    /\ UNCHANGED <<etl_vars, chunksize, connection, alive, cursor, table_created,
                   committed, pending, pos, chunk, total_records, optimized, exc,
                   first_exc, failed_batch, trace>>

\* Lines 112-114: a mysql Error is logged and raised again; the finally clause
\* runs on the way out.
ExceptError ==
    /\ lpc = "except"
    /\ lpc' = "finally"
    /\ UNCHANGED <<etl_vars, chunksize, connection, alive, cursor, table_created,
                   committed, pending, pos, chunk, total_records, logged_total,
                   optimized, exc, first_exc, failed_batch, trace>>

\* Lines 116-117: the cleanup runs only if the connection was assigned and answers.
Finally ==
    /\ lpc = "finally"
    /\ lpc' = IF connection # "unbound" /\ alive THEN "cursor_close" ELSE Exit
    /\ UNCHANGED <<etl_vars, chunksize, connection, alive, cursor, table_created,
                   committed, pending, pos, chunk, total_records, logged_total,
                   optimized, exc, first_exc, failed_batch, trace>>

\* Line 118: cursor.close(); the name cursor is unassigned if line 97 raised.
CloseCursor ==
    /\ lpc = "cursor_close"
    /\ IF cursor = "unbound"
       THEN /\ exc' = "UnboundLocalError"
            /\ first_exc' = IF first_exc = "none" THEN "UnboundLocalError" ELSE first_exc
            /\ lpc' = "raised"
            /\ cursor' = cursor
       ELSE /\ cursor' = "closed"
            /\ lpc' = "connection_close"
            /\ NoRaise
    /\ UNCHANGED <<etl_vars, chunksize, connection, alive, table_created, committed,
                   pending, pos, chunk, total_records, logged_total, optimized,
                   failed_batch, trace>>

\* Lines 119-120: closing the connection discards a transaction left open.
CloseConnection ==
    /\ lpc = "connection_close"
    /\ connection' = "closed"
    /\ pending' = <<>>
    /\ Log(<<"close">>)
    /\ lpc' = Exit
    /\ UNCHANGED <<etl_vars, chunksize, alive, cursor, table_created, committed,
                   pos, chunk, total_records, logged_total, optimized, exc,
                   first_exc, failed_batch>>

NextLoader ==
    \/ Connect
    \/ IsConnected
    \/ CreateCursor
    \/ CreateTable
    \/ ReadChunk
    \/ ExecuteMany
    \/ Commit
    \/ Rollback
    \/ CountRecords
    \/ Optimize
    \/ LogCompletion
    \/ ExceptError
    \/ Finally
    \/ CloseCursor
    \/ CloseConnection

SpecLoader == InitLoader /\ [][NextLoader]_vars

Exited == lpc \in {"returned", "raised"}

\* C5 (as claimed): when import_csv_to_mysql returns or raises, a connection that
\* was opened has been closed, and what is raised is the original exception.
C5_ConnectionClosedOnEveryExit ==
    Exited => (connection # "open" /\ exc = first_exc)

\* C6: once the insert of batch k has failed, exactly the rows of batches 1..k-1
\* are committed and stay so, the rows of batch k are rolled back (none is left in
\* a transaction after the rollback, none when the function has raised), no insert
\* is attempted again (neither a retry nor a later batch), the optimization does
\* not run, and the function ends by raising the Error.
C6_FailedBatchRolledBackAndRaised ==
    failed_batch # 0 =>
        /\ committed = SubSeq(data, 1, (failed_batch - 1) * chunksize)
        /\ lpc \in {"rollback", "except", "finally", "cursor_close",
                    "connection_close", "raised"}
        /\ (\E i \in DOMAIN trace : trace[i][1] = "rollback") => pending = <<>>
        /\ lpc = "raised" => pending = <<>>
        /\ Cardinality({i \in DOMAIN trace : trace[i][1] = "executemany"}) = failed_batch
        /\ Cardinality({i \in DOMAIN trace : trace[i][1] = "rollback"}) <= 1
        /\ trace[Len(trace)][1] \in {"executemany", "rollback", "close"}
        /\ ~optimized
        /\ exc = "Error"

\* The second batch of two rows failed with one row in the transaction: the call
\* has raised, the first batch alone is committed, the connection is closed.
C6_Witness ==
    /\ lpc = "raised"
    /\ failed_batch = 2
    /\ chunksize = 2
    /\ Len(data) = 4
    /\ data[1] # data[2]
    /\ committed = SubSeq(data, 1, 2)
    /\ pending = <<>>
    /\ \E i \in DOMAIN trace : trace[i][1] = "rollback"
    /\ connection = "closed"

RECURSIVE BatchOps(_, _)
BatchOps(rows, n) ==
    IF rows = <<>> THEN <<>>
    ELSE LET k == IF Len(rows) < n THEN Len(rows) ELSE n
             b == SubSeq(rows, 1, k)
         IN <<<<"read", b>>, <<"executemany", b>>, <<"commit">>>>
            \o BatchOps(SubSeq(rows, k + 1, Len(rows)), n)

\* C10: a run that returns from a connection that answered has created the table,
\* then for each consecutive batch of chunksize rows in file order (the last
\* possibly shorter) read it, inserted it and committed it, then optimized, then
\* closed; every row is committed once, and the logged total is the number of
\* committed rows.
C10_OrderedBatchesAllCommitted ==
    (lpc = "returned" /\ alive) =>
        /\ trace = <<<<"create_table">>>> \o BatchOps(data, chunksize)
                     \o <<<<"optimize">>, <<"close">>>>
        /\ committed = data
        /\ pending = <<>>
        /\ logged_total = Len(committed)
        /\ total_records = Len(committed)

\* Four rows loaded in batches of 3 and 1.
C10_Witness ==
    /\ lpc = "returned"
    /\ alive
    /\ chunksize = 3
    /\ Len(data) = 4
    /\ data[1] # data[4]
    /\ committed = data
    /\ logged_total = 4

====
